---- MODULE Spec2Model ----
(***************************************************************************)
(* Model of jami-rs, src/src/lib.rs: Jami::handle_events, the signal       *)
(* subscription and translation engine.  handle_events opens the session   *)
(* bus, spawns the connection resource task, registers one match with a    *)
(* callback per daemon signal, and then polls the Stop Flag in a blocking  *)
(* sleep-and-check loop.  Each callback clones the channel sender and      *)
(* spawns one task that sends one Event.                                   *)
(***************************************************************************)
EXTENDS Integers, Sequences, FiniteSets, TLC

\* ------------------------------------------------------------------ bounds
\* Signals the daemon emits in one run of Spec and FairSpec.
MaxSignals == 2
\* Signals the daemon emits in one run of SpecAllSignals.
MaxAllSignals == 1
\* Capacity of the mpsc channel the caller constructed.
MaxCapacity == 2

\* How far around each anchor value the statuses of SpecStatus reach.
StatusSpread == 3

\* Largest number in a field of a transfer-info record of SpecCodec.
CodecMaxNum == 1

\* Most accounts the daemon holds in a run of SpecFacade.
MaxAccounts == 2

\* Most file transfers the daemon holds at a time in a run of SpecFacade.
MaxTransfers == 2

\* Executor threads of the runtime that polls handle_events: 1 is a
\* current-thread runtime, 2 stands for every multi-thread runtime.
ExecutorThreads == {1, 2}

VARIABLES
    emits,        \* signal names the daemon emits in this run
    budget,       \* number of signals the daemon emits in this run
    threads,      \* executor threads of the runtime
    capacity,     \* capacity of the channel behind tx
    pc,           \* position of handle_events
    stop,         \* the Stop Flag (Arc<AtomicBool>)
    conn,         \* the bus connection: "none", "up", "lost"
    resource,     \* the spawned resource task: "absent", "running", "panicked"
    matches,      \* signal names whose MsgMatch (_ic) is alive, callback included
    busRules,     \* match rules added on the bus (never removed by the code)
    inbox,        \* signals the bus has sent to this connection, not yet dispatched
    nsig,         \* number of signals emitted so far
    tasks,        \* spawned send tasks, in spawn order
    chan,         \* events buffered in the channel
    rxOpen,       \* the consumer still holds the receiver
    received,     \* events the consumer has received, in order
    closedSeen,   \* the consumer's recv has returned None
    delivered,    \* history: signals handed to a callback, in order
    sendErrs,     \* history: sends that ended with Err (receiver closed)
    sleepsSinceStop, \* history: sleeps of the poll loop finished with the flag set
    checksSinceStop, \* history: flag checks of the poll loop made with the flag set
    lostWhileRunning, \* history: the connection was lost before handle_events ended
    skipped,      \* history: messages a live match passed over, their arguments unread
    stopAtCall,   \* history: the Stop Flag was already set when handle_events was called
    calc,         \* the last call of a synchronous function of the binding
    daemon        \* the daemon's accounts and file transfers

vars == <<emits, budget, threads, capacity, pc, stop, conn, resource, matches, busRules, inbox,
          nsig, tasks, chan, rxOpen, received, closedSeen, delivered, sendErrs,
          sleepsSinceStop, checksSinceStop, lostWhileRunning, skipped, stopAtCall,
          calc, daemon>>

\* ------------------------------------------------------------ signal table
\* The signal names handle_events subscribes to, in registration order.
SignalNames ==
    << "accountsChanged", "messageReceived", "registrationStateChanged",
       "conversationReady", "conversationRemoved", "conversationRequestReceived",
       "registeredNameFound", "profileReceived", "incomingTrustRequest",
       "conversationLoaded", "dataTransferEvent" >>

NumSubscriptions == Len(SignalNames)

NameSet == { SignalNames[i] : i \in 1..NumSubscriptions }

\* D-Bus type signature each callback's argument tuple asks for.
Signature(name) ==
    CASE name = "accountsChanged"             -> << >>
      [] name = "messageReceived"             -> << "s", "s", "a{ss}" >>
      [] name = "registrationStateChanged"    -> << "s", "s", "t", "s" >>
      [] name = "conversationReady"           -> << "s", "s" >>
      [] name = "conversationRemoved"         -> << "s", "s" >>
      [] name = "conversationRequestReceived" -> << "s", "s" >>
      [] name = "registeredNameFound"         -> << "s", "i", "s", "s" >>
      [] name = "profileReceived"             -> << "s", "s", "s" >>
      [] name = "incomingTrustRequest"        -> << "s", "s", "ay", "t" >>
      [] name = "conversationLoaded"          -> << "u", "s", "s", "aa{ss}" >>
      [] name = "dataTransferEvent"           -> << "s", "s", "t", "i" >>

\* A widening that clamps a negative status to zero.
AsU64Clamped(status) ==
    IF status < 0 THEN << 0, 0, 0, 0 >>
                  ELSE << status % 65536, (status \div 65536) % 65536, 0, 0 >>

\* `status as u64`: the i32 is sign-extended to 64 bits.  The result is kept as
\* four 16-bit limbs, least significant first.
AsU64(status) ==
    LET ext == IF status < 0 THEN 65535 ELSE 0
    IN  << status % 65536, (status \div 65536) % 65536, ext, ext >>

\* The Event a callback builds from its argument tuple a.
EventBuilt(name, a) ==
    CASE name = "accountsChanged" ->
            [variant |-> "AccountsChanged", fields |-> << >>]
      [] name = "messageReceived" ->
            [variant |-> "Message", fields |-> << a[1], a[2], a[3] >>]
      [] name = "registrationStateChanged" ->
            [variant |-> "RegistrationStateChanged", fields |-> << a[1], a[2] >>]
      [] name = "conversationReady" ->
            [variant |-> "ConversationReady", fields |-> << a[1], a[2] >>]
      [] name = "conversationRemoved" ->
            [variant |-> "ConversationRemoved", fields |-> << a[1], a[2] >>]
      [] name = "conversationRequestReceived" ->
            [variant |-> "ConversationRequest", fields |-> << a[1], a[2] >>]
      [] name = "registeredNameFound" ->
            [variant |-> "RegisteredNameFound",
             fields |-> << a[1], AsU64(a[2]), a[3], a[4] >>]
      [] name = "profileReceived" ->
            [variant |-> "ProfileReceived", fields |-> << a[1], a[2], a[3] >>]
      [] name = "incomingTrustRequest" ->
            [variant |-> "IncomingTrustRequest",
             fields |-> << a[1], a[2], a[3], a[4] >>]
      [] name = "conversationLoaded" ->
            [variant |-> "ConversationLoaded",
             fields |-> << a[1], a[2], a[3], a[4] >>]
      [] name = "dataTransferEvent" ->
            [variant |-> "DataTransferEvent",
             fields |-> << a[1], a[2], a[3], a[4] >>]

\* A decoder that passes the account id and the conversation id in each
\* other's place.
EventOfSwapped(name, a) ==
    LET e == EventBuilt(name, a)
    IN  IF name = "dataTransferEvent"
          THEN [e EXCEPT !.fields = << a[2], a[1], a[3], a[4] >>]
          ELSE e

\* The decoders of the callbacks of handle_events.
EventOf(name, a) == EventBuilt(name, a)

\* Payloads the daemon sends for a signal name: the shape the callback expects.
Payloads(name) ==
    CASE name = "accountsChanged" -> { << >> }
      [] name = "messageReceived" -> { << "a1", "c1", [body |-> "hi"] >> }
      [] name = "registrationStateChanged" -> { << "a1", "REGISTERED", 0, "ok" >> }
      [] name = "conversationReady" -> { << "a1", "c1" >> }
      [] name = "conversationRemoved" -> { << "a1", "c1" >> }
      [] name = "conversationRequestReceived" -> { << "a1", "c1" >> }
      [] name = "registeredNameFound" ->
            { << "a1", 0, "addr", "nm" >>, << "a1", -1, "addr", "nm" >> }
      [] name = "profileReceived" -> { << "a1", "p1", "/vcard" >> }
      [] name = "incomingTrustRequest" -> { << "a1", "p1", << 1, 2 >>, 7 >> }
      [] name = "conversationLoaded" ->
            { << 5, "a1", "c1", << [body |-> "hi"] >> >> }
      [] name = "dataTransferEvent" -> { << "a1", "c1", 42, 3 >> }

\* Messages the daemon may send under a signal name: the payloads above with
\* the signature the callback asks for, and a messageReceived that lacks its
\* third argument.
Wire(name) ==
    { [types |-> Signature(name), args |-> a] : a \in Payloads(name) }
    \cup (IF name = "messageReceived"
            THEN { [types |-> << "s", "s" >>, args |-> << "a1", "c1" >>] }
            ELSE { })

\* MsgMatch::cb reads the callback's argument tuple from the message; the
\* callback runs only when every argument it asks for is there with its type.
ReadOk(s) ==
    LET want == Signature(s.name)
    IN  /\ Len(s.types) >= Len(want)
        /\ SubSeq(s.types, 1, Len(want)) = want

\* ---------------------------------------------------------------- helpers
RemoveAt(q, i) == SubSeq(q, 1, i - 1) \o SubSeq(q, i + 1, Len(q))

InPollLoop == pc \in {"sleep", "check"}

Ended == pc \in {"done", "panicked"}

\* thread::sleep inside the async fn keeps the executor thread that polls
\* handle_events; other tasks of the runtime run only on another thread.
ExecutorFree == threads >= 2 \/ ~InPollLoop

\* Sender handles alive: the tx argument, one clone per live callback, one
\* clone per spawned task that has not finished.
SenderHandles ==
    (IF Ended THEN 0 ELSE 1) + Cardinality(matches) + Len(tasks)

\* ------------------------------------------------------------------- Init
\* The signal names of the callbacks the claims cite by name.
CoreNames ==
    { "accountsChanged", "messageReceived", "conversationReady", "dataTransferEvent" }

\* No synchronous function of the binding has been called.
NoCall == [op |-> "none"]

\* A daemon with no account and no file transfer.
NoDaemon == [accounts |-> << >>, transfers |-> << >>]

InitWith(names, n) ==
    /\ emits = names
    /\ budget = n
    /\ threads \in ExecutorThreads
    /\ capacity \in 1..MaxCapacity
    /\ pc = "connect"
    /\ stop = FALSE
    /\ conn = "none"
    /\ resource = "absent"
    /\ matches = {}
    /\ busRules = {}
    /\ inbox = << >>
    /\ nsig = 0
    /\ tasks = << >>
    /\ chan = << >>
    /\ rxOpen = TRUE
    /\ received = << >>
    /\ closedSeen = FALSE
    /\ delivered = << >>
    /\ sendErrs = 0
    /\ sleepsSinceStop = 0
    /\ checksSinceStop = 0
    /\ lostWhileRunning = FALSE
    /\ skipped = 0
    /\ stopAtCall = FALSE
    /\ calc = NoCall
    /\ daemon = NoDaemon

Init == InitWith(CoreNames, MaxSignals)

\* Every signal name, fewer signals.
InitAllSignals == InitWith(NameSet, MaxAllSignals)

\* The first and the last registered signal name.
LiveNames == { "accountsChanged", "dataTransferEvent" }

InitLive == InitWith(LiveNames, MaxSignals)

\* --------------------------------------------------------- handle_events
\* connection::new_session_sync() succeeds; the resource future is spawned.
Connect ==
    /\ pc = "connect"
    /\ pc' = "reg"
    /\ conn' = "up"
    /\ resource' = "running"
    /\ stopAtCall' = stop
    /\ UNCHANGED <<calc, daemon, skipped, emits, budget, threads, capacity, stop, matches, busRules, inbox, nsig, tasks,
                   chan, rxOpen, received, closedSeen, delivered, sendErrs,
                   sleepsSinceStop, checksSinceStop, lostWhileRunning>>

\* connection::new_session_sync() fails: .expect("Lost connection") panics.
ConnectFail ==
    /\ pc = "connect"
    /\ pc' = "panicked"
    /\ stopAtCall' = stop
    /\ UNCHANGED <<calc, daemon, skipped, emits, budget, threads, capacity, stop, conn, resource, matches, busRules,
                   inbox, nsig, tasks, chan, rxOpen, received, closedSeen,
                   delivered, sendErrs, sleepsSinceStop, checksSinceStop,
                   lostWhileRunning>>

\* A registration sequence that starts the poll loop one subscription short.
AddMatchOneShort ==
    /\ pc = "reg"
    /\ conn = "up"
    /\ LET k == Cardinality(busRules) + 1
       IN  /\ matches' = matches \cup {SignalNames[k]}
           /\ busRules' = busRules \cup {SignalNames[k]}
           /\ pc' = IF k >= NumSubscriptions - 1 THEN "sleep" ELSE "reg"
    /\ UNCHANGED <<calc, daemon, skipped, stopAtCall, emits, budget, threads, capacity, stop, conn, resource, inbox,
                   nsig, tasks, chan, rxOpen, received, closedSeen, delivered,
                   sendErrs, sleepsSinceStop, checksSinceStop, lostWhileRunning>>

\* The next conn.add_match(mr).await succeeds and .cb(..) installs the
\* callback with its sender clone; after the last one the poll loop starts.
AddMatch ==
    /\ pc = "reg"
    /\ conn = "up"
    /\ LET k == Cardinality(busRules) + 1
       IN  /\ matches' = matches \cup {SignalNames[k]}
           /\ busRules' = busRules \cup {SignalNames[k]}
           /\ pc' = IF k = NumSubscriptions THEN "sleep" ELSE "reg"
    /\ UNCHANGED <<calc, daemon, skipped, stopAtCall, emits, budget, threads, capacity, stop, conn, resource, inbox, nsig, tasks,
                   chan, rxOpen, received, closedSeen, delivered, sendErrs,
                   sleepsSinceStop, checksSinceStop, lostWhileRunning>>

\* The next conn.add_match(mr).await gives Err: .expect("Lost connection")
\* panics, and unwinding drops tx and every _ic registered so far.
AddMatchFail ==
    /\ pc = "reg"
    /\ pc' = "panicked"
    /\ matches' = {}
    /\ UNCHANGED <<calc, daemon, skipped, stopAtCall, emits, budget, threads, capacity, stop, conn, resource, busRules, inbox, nsig,
                   tasks, chan, rxOpen, received, closedSeen, delivered, sendErrs,
                   sleepsSinceStop, checksSinceStop, lostWhileRunning>>

\* History counters stop counting at 2: one more than the poll loop allows.
Count(n) == IF n < 2 THEN n + 1 ELSE n

\* A poll loop that looks at the flag before it sleeps, and returns without
\* sleeping when the flag is set.
PollSleepChecksFirst ==
    /\ pc = "sleep"
    /\ IF stop
         THEN /\ pc' = "done"
              /\ matches' = {}
         ELSE /\ pc' = "check"
              /\ UNCHANGED matches
    /\ UNCHANGED <<calc, daemon, skipped, stopAtCall, emits, budget, threads, capacity, stop, conn, resource, busRules,
                   inbox, nsig, tasks, chan, rxOpen, received, closedSeen,
                   delivered, sendErrs, sleepsSinceStop, checksSinceStop,
                   lostWhileRunning>>

\* thread::sleep(ten_millis) of the poll loop returns.
PollSleep ==
    /\ pc = "sleep"
    /\ pc' = "check"
    /\ sleepsSinceStop' = IF stop THEN Count(sleepsSinceStop) ELSE sleepsSinceStop
    /\ UNCHANGED <<calc, daemon, skipped, stopAtCall, emits, budget, threads, capacity, stop, conn, resource, matches, busRules,
                   inbox, nsig, tasks, chan, rxOpen, received, closedSeen,
                   delivered, sendErrs, checksSinceStop, lostWhileRunning>>

\* A poll loop whose check never sees the flag set.
PollCheckNeverBreaks ==
    /\ pc = "check"
    /\ pc' = "sleep"
    /\ checksSinceStop' = IF stop THEN Count(checksSinceStop) ELSE checksSinceStop
    /\ UNCHANGED <<calc, daemon, skipped, stopAtCall, emits, budget, threads, capacity, stop, conn, resource, matches, busRules,
                   inbox, nsig, tasks, chan, rxOpen, received, closedSeen,
                   delivered, sendErrs, sleepsSinceStop, lostWhileRunning>>

\* A return that leaves the matches, and so the callbacks' sender clones, alive.
PollCheckKeepsMatches ==
    /\ pc = "check"
    /\ pc' = IF stop THEN "done" ELSE "sleep"
    /\ checksSinceStop' = IF stop THEN Count(checksSinceStop) ELSE checksSinceStop
    /\ UNCHANGED <<calc, daemon, skipped, stopAtCall, emits, budget, threads, capacity, stop, conn, resource, matches,
                   busRules, inbox, nsig, tasks, chan, rxOpen, received, closedSeen,
                   delivered, sendErrs, sleepsSinceStop, lostWhileRunning>>

\* A return that aborts the send tasks the callbacks have spawned.
PollCheckAbortsTasks ==
    /\ pc = "check"
    /\ IF stop
         THEN /\ pc' = "done"
              /\ matches' = {}
              /\ tasks' = << >>
         ELSE /\ pc' = "sleep"
              /\ UNCHANGED <<matches, tasks>>
    /\ checksSinceStop' = IF stop THEN Count(checksSinceStop) ELSE checksSinceStop
    /\ UNCHANGED <<calc, daemon, skipped, stopAtCall, emits, budget, threads, capacity, stop, conn, resource, busRules, inbox, nsig,
                   chan, rxOpen, received, closedSeen, delivered, sendErrs,
                   sleepsSinceStop, lostWhileRunning>>

\* if stop.load(Ordering::Relaxed) { break } and, after the break, Ok(()):
\* returning drops tx, conn and every _ic, the callbacks' sender clones with
\* them.
PollCheck ==
    /\ pc = "check"
    /\ IF stop
         THEN /\ pc' = "done"
              /\ matches' = {}
         ELSE /\ pc' = "sleep"
              /\ UNCHANGED matches
    /\ checksSinceStop' = IF stop THEN Count(checksSinceStop) ELSE checksSinceStop
    /\ UNCHANGED <<calc, daemon, skipped, stopAtCall, emits, budget, threads, capacity, stop, conn, resource, busRules, inbox, nsig,
                   tasks, chan, rxOpen, received, closedSeen, delivered, sendErrs,
                   sleepsSinceStop, lostWhileRunning>>

\* ------------------------------------------------- reactor and callbacks
\* A callback that awaits the send itself instead of spawning it.
CallbackAwaitsSend(s) ==
    /\ rxOpen => Len(chan) < capacity
    /\ chan' = IF rxOpen
                 THEN Append(chan, [ev |-> EventOf(s.name, s.args), src |-> s.id,
                                   late |-> pc = "done"])
                 ELSE chan
    /\ delivered' = Append(delivered, s)
    /\ UNCHANGED tasks

\* The body every callback shares: clone the sender, tokio::spawn the send of
\* the Event built from the arguments, return true.
Callback(s) ==
    /\ tasks' = Append(tasks, [ev |-> EventOf(s.name, s.args), src |-> s.id,
                               full |-> rxOpen /\ Len(chan) = capacity])
    /\ delivered' = Append(delivered, s)
    /\ UNCHANGED chan

\* The resource task reads the next message and hands it to its match: the
\* callback runs when the match is alive and the arguments read; otherwise the
\* message is passed over.
Dispatch ==
    /\ resource = "running"
    /\ conn = "up"
    /\ inbox # << >>
    /\ ExecutorFree
    /\ inbox' = Tail(inbox)
    /\ LET s == Head(inbox)
       IN  /\ IF s.name \in matches /\ ReadOk(s)
                THEN Callback(s)
                ELSE UNCHANGED <<tasks, delivered, chan>>
           /\ skipped' = IF s.name \in matches /\ ~ReadOk(s)
                           THEN skipped + 1 ELSE skipped
    /\ UNCHANGED <<calc, daemon, stopAtCall, emits, budget, threads, capacity, pc, stop, conn, resource, matches, busRules,
                   nsig, rxOpen, received, closedSeen, sendErrs, sleepsSinceStop,
                   checksSinceStop, lostWhileRunning>>

\* Which spawned task the runtime may run next: a current-thread runtime runs
\* them in spawn order, a multi-thread runtime in any order.
MayRun(i) == i \in DOMAIN tasks /\ (threads = 1 => i = 1)

\* A send whose Err is unwrapped where handle_events runs: it panics.
TaskSendEscalates(i) ==
    /\ MayRun(i)
    /\ ExecutorFree
    /\ rxOpen => Len(chan) < capacity
    /\ chan' = IF rxOpen
                 THEN Append(chan, [ev |-> tasks[i].ev, src |-> tasks[i].src,
                                   late |-> pc = "done"])
                 ELSE chan
    /\ sendErrs' = IF rxOpen THEN sendErrs ELSE sendErrs + 1
    /\ tasks' = RemoveAt(tasks, i)
    /\ pc' = IF rxOpen THEN pc ELSE "panicked"
    /\ matches' = IF rxOpen THEN matches ELSE {}
    /\ UNCHANGED <<calc, daemon, skipped, stopAtCall, emits, budget, threads, capacity, stop, conn, resource, busRules,
                   inbox, nsig, rxOpen, received, closedSeen, delivered,
                   sleepsSinceStop, checksSinceStop, lostWhileRunning>>

\* txs.send(event).await of spawned task i completes: the event is enqueued
\* when there is room, the send ends with Err when the receiver is gone.  The
\* task's result is dropped with its JoinHandle.
TaskSend(i) ==
    /\ MayRun(i)
    /\ ExecutorFree
    /\ rxOpen => Len(chan) < capacity
    /\ chan' = IF rxOpen
                 THEN Append(chan, [ev |-> tasks[i].ev, src |-> tasks[i].src,
                                   late |-> pc = "done"])
                 ELSE chan
    /\ sendErrs' = IF rxOpen THEN sendErrs ELSE sendErrs + 1
    /\ tasks' = RemoveAt(tasks, i)
    /\ UNCHANGED <<calc, daemon, skipped, stopAtCall, emits, budget, threads, capacity, pc, stop, conn, resource, matches, busRules,
                   inbox, nsig, rxOpen, received, closedSeen, delivered,
                   sleepsSinceStop, checksSinceStop, lostWhileRunning>>

\* The resource future completes: the spawned task panics with
\* "Lost connection to D-Bus", which ends that task.
ConnLost ==
    /\ conn = "up"
    /\ conn' = "lost"
    /\ resource' = "panicked"
    /\ lostWhileRunning' = (lostWhileRunning \/ ~Ended)
    /\ UNCHANGED <<calc, daemon, skipped, stopAtCall, emits, budget, threads, capacity, pc, stop, matches, busRules, inbox, nsig,
                   tasks, chan, rxOpen, received, closedSeen, delivered, sendErrs,
                   sleepsSinceStop, checksSinceStop>>

\* ------------------------------------------------------------ environment
\* The daemon emits a signal that one of the added match rules selects.
Emit(name, m) ==
    /\ conn = "up"
    /\ nsig < budget
    /\ name \in emits
    /\ name \in busRules
    /\ nsig' = nsig + 1
    /\ inbox' = Append(inbox, [id |-> nsig + 1, name |-> name,
                               types |-> m.types, args |-> m.args])
    /\ UNCHANGED <<calc, daemon, skipped, stopAtCall, emits, budget, threads, capacity, pc, stop, conn, resource, matches, busRules,
                   tasks, chan, rxOpen, received, closedSeen, delivered, sendErrs,
                   sleepsSinceStop, checksSinceStop, lostWhileRunning>>

\* A holder of the Stop Flag stores true.
SetStop ==
    /\ ~stop
    /\ stop' = TRUE
    /\ UNCHANGED <<calc, daemon, skipped, stopAtCall, emits, budget, threads, capacity, pc, conn, resource, matches, busRules, inbox,
                   nsig, tasks, chan, rxOpen, received, closedSeen, delivered,
                   sendErrs, sleepsSinceStop, checksSinceStop, lostWhileRunning>>

\* The consumer's recv yields the next buffered event.
ConsumerRecv ==
    /\ rxOpen
    /\ chan # << >>
    /\ received' = Append(received, Head(chan))
    /\ chan' = Tail(chan)
    /\ UNCHANGED <<calc, daemon, skipped, stopAtCall, emits, budget, threads, capacity, pc, stop, conn, resource, matches, busRules,
                   inbox, nsig, tasks, rxOpen, closedSeen, delivered, sendErrs,
                   sleepsSinceStop, checksSinceStop, lostWhileRunning>>

\* The consumer's recv yields None: the buffer is empty and no sender is left.
ConsumerRecvNone ==
    /\ rxOpen
    /\ ~closedSeen
    /\ chan = << >>
    /\ SenderHandles = 0
    /\ closedSeen' = TRUE
    /\ UNCHANGED <<calc, daemon, skipped, stopAtCall, emits, budget, threads, capacity, pc, stop, conn, resource, matches, busRules,
                   inbox, nsig, tasks, chan, rxOpen, received, delivered, sendErrs,
                   sleepsSinceStop, checksSinceStop, lostWhileRunning>>

\* The consumer drops the receiver: buffered events are discarded.
ConsumerDrop ==
    /\ rxOpen
    /\ rxOpen' = FALSE
    /\ chan' = << >>
    /\ UNCHANGED <<calc, daemon, skipped, stopAtCall, emits, budget, threads, capacity, pc, stop, conn, resource, matches, busRules,
                   inbox, nsig, tasks, received, closedSeen, delivered, sendErrs,
                   sleepsSinceStop, checksSinceStop, lostWhileRunning>>

\* The runtime runs one of the spawned send tasks.
RunTask == \E i \in DOMAIN tasks : TaskSend(i)

\* The daemon emits one of its signals.
DaemonEmit == \E name \in NameSet : \E m \in Wire(name) : Emit(name, m)

\* ------------------------------------------------------------------- Next
Next ==
    \/ Connect
    \/ ConnectFail
    \/ AddMatch
    \/ AddMatchFail
    \/ PollSleep
    \/ PollCheck
    \/ Dispatch
    \/ RunTask
    \/ ConnLost
    \/ DaemonEmit
    \/ SetStop
    \/ ConsumerRecv
    \/ ConsumerRecvNone
    \/ ConsumerDrop

Spec == Init /\ [][Next]_vars

\* The runtime keeps polling handle_events and every runnable task, and the
\* consumer keeps receiving; the daemon, the holder of the Stop Flag and the
\* loss of the connection are under no obligation.
Fairness ==
    /\ WF_vars(Connect)
    /\ WF_vars(AddMatch)
    /\ WF_vars(PollSleep)
    /\ WF_vars(PollCheck)
    /\ WF_vars(Dispatch)
    /\ WF_vars(RunTask)
    /\ WF_vars(ConsumerRecv)
    /\ WF_vars(ConsumerRecvNone)

FairSpec == InitLive /\ [][Next]_vars /\ Fairness

SpecAllSignals == InitAllSignals /\ [][Next]_vars

\* ------------------------------------------- synchronous functions alone
\* Every variable of handle_events.
hvars == <<emits, budget, threads, capacity, pc, stop, conn, resource, matches,
           busRules, inbox, nsig, tasks, chan, rxOpen, received, closedSeen,
           delivered, sendErrs, sleepsSinceStop, checksSinceStop,
           lostWhileRunning, skipped, stopAtCall>>

\* handle_events is not called; only synchronous functions are.
InitCalls == InitWith({}, 0) /\ threads = 1 /\ capacity = 1

MinI32 == -2147483647 - 1
MaxI32 == 2147483647

\* Wire statuses of registeredNameFound: i32 values around zero, around the
\* 16-bit limb boundary and at both ends of the range.
StatusSamples ==
    { MinI32 + k : k \in 0..StatusSpread }
    \cup { MaxI32 - k : k \in 0..StatusSpread }
    \cup { d - 65536 : d \in -StatusSpread..StatusSpread }
    \cup { d : d \in -StatusSpread..StatusSpread }
    \cup { d + 65536 : d \in -StatusSpread..StatusSpread }

\* The registeredNameFound callback widens two statuses.
CastStatus(a, b) ==
    /\ calc' = [op |-> "status", a |-> a, b |-> b, ua |-> AsU64(a), ub |-> AsU64(b)]
    /\ UNCHANGED <<hvars, daemon>>

NextStatus == \E a, b \in StatusSamples : CastStatus(a, b)

SpecStatus == InitCalls /\ [][NextStatus]_vars

\* ---------------------------------------------------- DataTransferInfo
CodecStrings == { "", "x" }
CodecU32 == 0..CodecMaxNum
CodecI64 == -CodecMaxNum..CodecMaxNum

\* struct DataTransferInfo.
TransferInfos ==
    [ account_id : CodecStrings, last_event : CodecU32, flags : CodecU32,
      total : CodecI64, bytes_progress : CodecI64, author : CodecStrings,
      peer : CodecStrings, conv_id : CodecStrings, display_name : CodecStrings,
      path : CodecStrings, mimetype : CodecStrings ]

\* The 11-tuples from_tuple takes.
TransferTuples ==
    { << a, e, f, n, b, u, p, c, d, l, m >> :
        a \in CodecStrings, e \in CodecU32, f \in CodecU32, n \in CodecI64,
        b \in CodecI64, u \in CodecStrings, p \in CodecStrings,
        c \in CodecStrings, d \in CodecStrings, l \in CodecStrings,
        m \in CodecStrings }

\* A tuple() that puts bytes_progress before total.
TupleSwapped(r) ==
    << r.account_id, r.last_event, r.flags, r.bytes_progress, r.total, r.author,
       r.peer, r.conv_id, r.display_name, r.path, r.mimetype >>

\* DataTransferInfo::tuple.
Tuple(r) ==
    << r.account_id, r.last_event, r.flags, r.total, r.bytes_progress, r.author,
       r.peer, r.conv_id, r.display_name, r.path, r.mimetype >>

\* A from_tuple that reads total and bytes_progress from each other's place.
FromTupleSwapped(info) ==
    [ account_id |-> info[1], last_event |-> info[2], flags |-> info[3],
      total |-> info[5], bytes_progress |-> info[4], author |-> info[6],
      peer |-> info[7], conv_id |-> info[8], display_name |-> info[9],
      path |-> info[10], mimetype |-> info[11] ]

\* DataTransferInfo::from_tuple; info.0 .. info.10 are info[1] .. info[11].
FromTuple(info) ==
    [ account_id |-> info[1], last_event |-> info[2], flags |-> info[3],
      total |-> info[4], bytes_progress |-> info[5], author |-> info[6],
      peer |-> info[7], conv_id |-> info[8], display_name |-> info[9],
      path |-> info[10], mimetype |-> info[11] ]

\* A record is turned into its tuple and back.
EncodeDecode(r) ==
    /\ calc = NoCall
    /\ calc' = [op |-> "record", r |-> r, t |-> Tuple(r),
                back |-> FromTuple(Tuple(r))]
    /\ UNCHANGED <<hvars, daemon>>

\* A tuple is turned into its record and back.
DecodeEncode(info) ==
    /\ calc = NoCall
    /\ calc' = [op |-> "tuple", t |-> info, r |-> FromTuple(info),
                back |-> Tuple(FromTuple(info))]
    /\ UNCHANGED <<hvars, daemon>>

NextCodec ==
    \/ \E r \in TransferInfos : EncodeDecode(r)
    \/ \E info \in TransferTuples : DecodeEncode(info)

SpecCodec == InitCalls /\ [][NextCodec]_vars

\* ------------------------------------------------ Remote Procedure Facade
\* How one call fares on the transport: the session bus opens and the method
\* call returns, the bus opens and the method call fails, the session bus
\* cannot be opened.
Outcomes == { "ok", "call_err", "no_bus" }

\* The function returned v.
Returned(v) == [panicked |-> FALSE, ret |-> v]

\* Connection::new_session().unwrap() met an Err: the function panicked and
\* returned nothing.
Unwound == [panicked |-> TRUE]

\* The id the daemon gives its n-th account.
AccountId(n) == "acc" \o ToString(n)

\* Account::null(): no id, not enabled.
AccountNull == [id |-> "", enabled |-> FALSE]

\* The account the daemon would create next.
NewAccount(en) == [id |-> AccountId(Len(daemon.accounts) + 1), enabled |-> en]

\* Ids the daemon gives to file transfers, and paths of files to send.
TransferIds == 0..MaxTransfers
Paths == { "/f", "/g" }

\* The record send_file builds for the file at path.
SendInfo(account_id, conv_id, path) ==
    [ account_id |-> account_id, last_event |-> 0, flags |-> 0, total |-> 0,
      bytes_progress |-> 0, author |-> "", peer |-> "", conv_id |-> conv_id,
      display_name |-> "", path |-> path, mimetype |-> "" ]

\* The record data_transfer_info hands to the daemon to fill.
EmptyInfo == SendInfo("", "", "")

KnownTransfer(tid) == \E k \in DOMAIN daemon.transfers : daemon.transfers[k].id = tid

\* The tuple the daemon answers dataTransferInfo with.
InfoTupleOf(tid) ==
    IF KnownTransfer(tid)
    THEN LET k == CHOOSE k \in DOMAIN daemon.transfers : daemon.transfers[k].id = tid
         IN  daemon.transfers[k].info
    ELSE Tuple(EmptyInfo)

\* Jami::get_account for the daemon's account acc.
GetAccount(acc, o) ==
    IF o = "no_bus" THEN Unwound
    ELSE IF o = "call_err" THEN Returned(AccountNull)
    ELSE Returned([id |-> acc.id, enabled |-> acc.enabled])

\* Jami::get_account_list: getAccountList, then get_account for every id.
GetAccountList(ol, oa) ==
    LET n == Len(daemon.accounts)
    IN  IF ol = "no_bus" THEN Unwound
        ELSE IF ol = "call_err" THEN Returned(<< >>)
        ELSE IF \E i \in 1..n : GetAccount(daemon.accounts[i], oa[i]).panicked
             THEN Unwound
        ELSE Returned([i \in 1..n |-> GetAccount(daemon.accounts[i], oa[i]).ret])

\* The transport outcomes of the calls get_account_list made.
ListOutcomes(ol, oa) ==
    << ol >> \o (IF ol = "ok" THEN [i \in 1..Len(daemon.accounts) |-> oa[i]] ELSE << >>)

\* Jami::add_account: the id of the new account, or the empty string.
AddAccountResult(o, en) ==
    IF o = "no_bus" THEN Unwound
    ELSE IF o = "call_err" THEN Returned("")
    ELSE Returned(NewAccount(en).id)

\* The daemon after addAccount.
DaemonAfterAdd(o, en) ==
    IF o = "ok" THEN [daemon EXCEPT !.accounts = Append(@, NewAccount(en))]
                ELSE daemon

\* The first enabled account of a list that has one.
FirstEnabled(list) ==
    list[CHOOSE i \in DOMAIN list :
            list[i].enabled /\ \A j \in 1..(i - 1) : ~list[j].enabled]

\* oa gives an outcome to the get_account calls that are made only.
OnlyCallsMade(oa) ==
    \A i \in DOMAIN oa : i > Len(daemon.accounts) => oa[i] = "ok"

\* Jami::lookup_name; found is the daemon's answer.
LookupName(o, found) ==
    /\ calc' = [op |-> "lookup_name", outs |-> << o >>,
                res |-> IF o = "no_bus" THEN Unwound
                        ELSE IF o = "call_err" THEN Returned(FALSE)
                        ELSE Returned(found)]
    /\ UNCHANGED <<hvars, daemon>>

\* Jami::get_account_list called by the application.
GetAccountListCall(ol, oa) ==
    /\ OnlyCallsMade(oa)
    /\ calc' = [op |-> "get_account_list", outs |-> ListOutcomes(ol, oa),
                res |-> GetAccountList(ol, oa)]
    /\ UNCHANGED <<hvars, daemon>>

\* Jami::add_account called by the application.
AddAccount(o, en) ==
    /\ Len(daemon.accounts) < MaxAccounts
    /\ calc' = [op |-> "add_account", outs |-> << o >>,
                res |-> AddAccountResult(o, en)]
    /\ daemon' = DaemonAfterAdd(o, en)
    /\ UNCHANGED hvars

\* Jami::set_account_details for the daemon's i-th account, enabling or
\* disabling it; the result of the call is not looked at.
SetAccountDetails(i, en, o) ==
    /\ i \in DOMAIN daemon.accounts
    /\ calc' = [op |-> "set_account_details", outs |-> << o >>,
                res |-> IF o = "no_bus" THEN Unwound ELSE Returned(<< >>)]
    /\ daemon' = IF o = "ok"
                 THEN [daemon EXCEPT !.accounts[i].enabled = en]
                 ELSE daemon
    /\ UNCHANGED hvars

\* Jami::select_jami_account.
SelectJamiAccount(create_if_not, ol, oa, oadd, en) ==
    LET list == GetAccountList(ol, oa)
        found == ~list.panicked /\ \E i \in DOMAIN list.ret : list.ret[i].enabled
        adds == ~list.panicked /\ ~found /\ create_if_not
        added == IF adds THEN AddAccountResult(oadd, en) ELSE Returned("")
    IN  /\ OnlyCallsMade(oa)
        /\ adds => Len(daemon.accounts) < MaxAccounts
        /\ ~adds => oadd = "ok" /\ en
        /\ calc' = [op |-> "select_jami_account",
                    create_if_not |-> create_if_not,
                    outs |-> ListOutcomes(ol, oa)
                             \o (IF adds THEN << oadd >> ELSE << >>),
                    res |-> IF list.panicked \/ added.panicked THEN Unwound
                            ELSE IF found THEN Returned(FirstEnabled(list.ret))
                            ELSE Returned(AccountNull),
                    before |-> daemon.accounts,
                    created |-> IF added.panicked THEN "" ELSE added.ret]
        /\ daemon' = IF adds THEN DaemonAfterAdd(oadd, en) ELSE daemon
        /\ UNCHANGED hvars

\* Jami::send_file; on success the daemon starts a transfer and gives it the
\* id tid.
SendFile(account_id, conv_id, path, o, tid) ==
    /\ o = "ok" => Len(daemon.transfers) < MaxTransfers /\ ~KnownTransfer(tid)
    /\ calc' = [op |-> "send_file", outs |-> << o >>,
                res |-> IF o = "no_bus" THEN Unwound ELSE Returned(0),
                assigned |-> IF o = "ok" THEN << tid >> ELSE << >>]
    /\ daemon' = IF o = "ok"
                 THEN [daemon EXCEPT !.transfers = Append(@,
                          [id |-> tid,
                           info |-> Tuple(SendInfo(account_id, conv_id, path))])]
                 ELSE daemon
    /\ UNCHANGED hvars

\* Jami::cancel_file_transfer; code is the daemon's answer.
CancelFileTransfer(tid, o, code) ==
    /\ calc' = [op |-> "cancel_file_transfer", outs |-> << o >>, tid |-> tid,
                res |-> IF o = "no_bus" THEN Unwound
                        ELSE IF o = "call_err" THEN Returned(0)
                        ELSE Returned(code)]
    /\ daemon' = IF o = "ok"
                 THEN [daemon EXCEPT !.transfers =
                          SelectSeq(@, LAMBDA x : x.id # tid)]
                 ELSE daemon
    /\ UNCHANGED hvars

\* Jami::data_transfer_info.
DataTransferInfo(tid, o) ==
    /\ calc' = [op |-> "data_transfer_info", outs |-> << o >>, tid |-> tid,
                res |-> IF o = "no_bus" THEN Unwound
                        ELSE IF o = "call_err" THEN Returned([some |-> FALSE])
                        ELSE Returned([some |-> TRUE,
                                       info |-> FromTuple(InfoTupleOf(tid))])]
    /\ UNCHANGED <<hvars, daemon>>

NextFacade ==
    \/ \E o \in Outcomes, found \in BOOLEAN : LookupName(o, found)
    \/ \E ol \in Outcomes, oa \in [1..MaxAccounts -> Outcomes] :
          GetAccountListCall(ol, oa)
    \/ \E o \in Outcomes, en \in BOOLEAN : AddAccount(o, en)
    \/ \E i \in 1..MaxAccounts, en \in BOOLEAN, o \in Outcomes :
          SetAccountDetails(i, en, o)
    \/ \E create_if_not, en \in BOOLEAN, ol, oadd \in Outcomes,
          oa \in [1..MaxAccounts -> Outcomes] :
          SelectJamiAccount(create_if_not, ol, oa, oadd, en)
    \/ \E path \in Paths, o \in Outcomes, tid \in TransferIds :
          SendFile(AccountId(1), "conv", path, o, tid)
    \/ \E tid \in TransferIds, o \in Outcomes, code \in 0..1 :
          CancelFileTransfer(tid, o, code)
    \/ \E tid \in TransferIds, o \in Outcomes : DataTransferInfo(tid, o)

SpecFacade == InitCalls /\ [][NextFacade]_vars

\* ================================================================= claims
\* Position in the bus delivery order of the signal with this id.
DeliveredAt(id) == CHOOSE k \in DOMAIN delivered : delivered[k].id = id

WasDelivered(id) == \E k \in DOMAIN delivered : delivered[k].id = id

WasReceived(id) == \E k \in DOMAIN received : received[k].src = id

\* C1: per-signal-name ordering.  Of two events of the same signal name that the
\* consumer has received, the one received first comes from the signal the bus
\* delivered first to the callback.
C1_PerSignalNameOrder ==
    \A i, j \in DOMAIN received :
        (/\ i < j
         /\ delivered[DeliveredAt(received[i].src)].name
              = delivered[DeliveredAt(received[j].src)].name)
        => DeliveredAt(received[i].src) < DeliveredAt(received[j].src)

\* Events handle_events has put on the channel and that are still there or
\* were received, oldest first.
OnChannel == received \o chan

\* The Event variant of the data model that stands for a signal name.
VariantFor(name) ==
    CASE name = "accountsChanged"             -> "AccountsChanged"
      [] name = "messageReceived"             -> "Message"
      [] name = "registrationStateChanged"    -> "RegistrationStateChanged"
      [] name = "conversationReady"           -> "ConversationReady"
      [] name = "conversationRemoved"         -> "ConversationRemoved"
      [] name = "conversationRequestReceived" -> "ConversationRequest"
      [] name = "registeredNameFound"         -> "RegisteredNameFound"
      [] name = "profileReceived"             -> "ProfileReceived"
      [] name = "incomingTrustRequest"        -> "IncomingTrustRequest"
      [] name = "conversationLoaded"          -> "ConversationLoaded"
      [] name = "dataTransferEvent"           -> "DataTransferEvent"

\* The u64 status field x holds the same number as the wire status y.
SameNumber(x, y) == y >= 0 /\ x = << y % 65536, y \div 65536, 0, 0 >>

\* The u64 status field x holds the 64-bit two's complement pattern of y.
SamePattern(x, y) ==
    x = << y % 65536, (y \div 65536) % 65536,
           IF y < 0 THEN 65535 ELSE 0, IF y < 0 THEN 65535 ELSE 0 >>

IsStatus(s, i) == s.name = "registeredNameFound" /\ i = 2

\* Event e stands for exactly one delivered signal, and for no other event.
FromOneSignal(k) ==
    /\ WasDelivered(OnChannel[k].src)
    /\ \A k2 \in DOMAIN OnChannel : OnChannel[k2].src = OnChannel[k].src => k2 = k
    /\ OnChannel[k].ev.variant
         = VariantFor(delivered[DeliveredAt(OnChannel[k].src)].name)

\* C2 as stated: every event on the channel is the decoding of one distinct
\* delivered signal, of the variant of the signal's name, and its fields are the
\* signal's payload fields, all of them, in positional order and unchanged.
C2_FieldsArePayload ==
    \A k \in DOMAIN OnChannel :
        /\ FromOneSignal(k)
        /\ LET s == delivered[DeliveredAt(OnChannel[k].src)]
               f == OnChannel[k].ev.fields
           IN  /\ Len(f) = Len(s.args)
               /\ \A i \in DOMAIN f :
                     IF IsStatus(s, i) THEN SameNumber(f[i], s.args[i])
                                       ELSE f[i] = s.args[i]

\* C2 as amended: every event on the channel is the decoding of one distinct
\* delivered signal, of the variant of the signal's name; its fields are the
\* signal's payload fields in positional order, except that
\* RegistrationStateChanged keeps only the first two of the four payload fields
\* and the status of RegisteredNameFound is the 64-bit sign extension of the
\* signed wire status.
C2_EventSoundness ==
    \A k \in DOMAIN OnChannel :
        /\ FromOneSignal(k)
        /\ LET s == delivered[DeliveredAt(OnChannel[k].src)]
               f == OnChannel[k].ev.fields
           IN  /\ Len(f) = IF s.name = "registrationStateChanged"
                             THEN 2 ELSE Len(s.args)
               /\ \A i \in DOMAIN f :
                     IF IsStatus(s, i) THEN SamePattern(f[i], s.args[i])
                                       ELSE f[i] = s.args[i]

\* The example of the specification: dataTransferEvent ("a1","c1",42,3) has
\* reached the consumer as DataTransferEvent("a1","c1",42,3).
C2_Witness ==
    \E k \in DOMAIN received :
        /\ received[k].ev
             = [variant |-> "DataTransferEvent", fields |-> << "a1", "c1", 42, 3 >>]
        /\ delivered[DeliveredAt(received[k].src)].args = << "a1", "c1", 42, 3 >>

\* C3: no silent drop.  With the runtime scheduling fairly and the consumer
\* receiving, every signal handed to a callback while the receiver is open is
\* eventually received by the consumer (or the consumer has dropped the
\* receiver meanwhile).
C3_NoSilentDrop ==
    \A id \in 1..MaxSignals :
        (WasDelivered(id) /\ rxOpen) ~> (WasReceived(id) \/ ~rxOpen)

\* C4: bounded cancellation.  With the Stop Flag set, the poll loop finishes at
\* most one sleep and makes at most one flag check, that check ends
\* handle_events with Ok(()), and no subscription is registered afterwards.
C4_BoundedCancellation ==
    /\ [](/\ sleepsSinceStop <= 1
          /\ checksSinceStop <= 1
          /\ (checksSinceStop = 1 => pc = "done"))
    /\ [][pc = "done" => (pc' = "done" /\ busRules' = busRules /\ matches' = {})]_vars

\* The flag was set during a sleep of the poll loop, and handle_events returned
\* after that sleep and one check.
C4_Witness == pc = "done" /\ stop /\ sleepsSinceStop = 1 /\ checksSinceStop = 1

\* C5: the channel closes at Stopped.  Once handle_events has returned, the tx
\* argument and every callback's sender clone are released, no callback runs for
\* a signal delivered later, and the consumer's recv eventually yields None
\* (unless the consumer drops the receiver first).
C5_ChannelClosesAtStopped ==
    /\ [](pc = "done" => (matches = {} /\ SenderHandles = Len(tasks)))
    /\ [][pc = "done" => delivered' = delivered]_vars
    /\ (pc = "done") ~> (closedSeen \/ ~rxOpen)

\* The consumer saw the channel close after handle_events returned, having
\* received an event.
C5_Witness == pc = "done" /\ closedSeen /\ received # << >>

\* C6: connection loss is fatal.  When the connection was lost while
\* handle_events was running, handle_events does not return Ok(()).
C6_ConnectionLossIsFatal == lostWhileRunning => pc # "done"

\* C7 as stated: the poll loop runs only with all twelve subscriptions
\* registered.
C7_TwelveSubscriptions == InPollLoop => Cardinality(matches) = 12

\* C7 as amended: the poll loop runs only with all eleven subscriptions
\* registered, and a failed registration ends handle_events for good.
C7_AllOrNothing ==
    /\ [](InPollLoop => (matches = NameSet /\ Cardinality(matches) = 11))
    /\ [][pc = "panicked" => pc' = "panicked"]_vars

\* handle_events is in its poll loop and a signal of the last registered name
\* has reached its callback.
C7_Witness ==
    /\ InPollLoop
    /\ \E k \in DOMAIN delivered : delivered[k].name = "dataTransferEvent"

\* C8: no reactor stall under saturation.  With the channel at capacity, the
\* reactor can always hand the next signal to its callback, and a callback
\* leaves the channel alone: it only adds a spawned send.
C8_NoReactorStall ==
    /\ []((/\ rxOpen /\ Len(chan) = capacity
           /\ resource = "running" /\ conn = "up" /\ inbox # << >>
           /\ ExecutorFree)
          => ENABLED Dispatch)
    /\ [][delivered' # delivered => (chan' = chan /\ Len(tasks') = Len(tasks) + 1)]_vars

\* The channel is full and a signal of another name, dispatched while it was
\* full, has its send scheduled.
C8_Witness ==
    /\ rxOpen /\ Len(chan) = capacity
    /\ \E i \in DOMAIN tasks :
          tasks[i].full /\ tasks[i].ev.variant # chan[1].ev.variant

\* C9: the poll does not hold up signal delivery.  While handle_events is in
\* its poll loop with the flag unset, the reactor can dispatch a waiting signal
\* and a spawned send with room in the channel can run.
C9_PollIndependentDelivery ==
    (InPollLoop /\ ~stop) =>
        /\ (resource = "running" /\ conn = "up" /\ inbox # << >>) => ENABLED Dispatch
        /\ (tasks # << >> /\ (rxOpen => Len(chan) < capacity)) => ENABLED RunTask

\* C10: a closed channel is swallowed.  A send that fails because the receiver
\* is gone changes neither the position of handle_events nor its subscriptions
\* nor the Stop Flag; with the receiver gone the poll loop keeps all its
\* subscriptions, the reactor still dispatches, and the flag check still ends
\* handle_events with Ok(()).
C10_ClosedChannelSwallowed ==
    /\ [][sendErrs' # sendErrs => (pc' = pc /\ matches' = matches /\ stop' = stop)]_vars
    /\ []((~rxOpen /\ InPollLoop) => matches = NameSet)
    /\ []((/\ ~rxOpen /\ resource = "running" /\ conn = "up" /\ inbox # << >>
           /\ ExecutorFree)
          => ENABLED Dispatch)
    /\ [][(sendErrs > 0 /\ pc = "check" /\ stop) => (pc' = pc \/ pc' = "done")]_vars

\* Two sends failed one after the other while handle_events was listening, and
\* handle_events then returned Ok(()).
C10_Witness == sendErrs = 2 /\ pc = "done" /\ Len(delivered) = 2

\* C11: a malformed payload is contract-fatal.  Once a live match has been
\* handed a message whose arguments do not have the shape its callback takes,
\* handle_events has ended with a fatal error.
C11_MalformedIsFatal == skipped > 0 => pc = "panicked"

\* A u64, given by its limbs, read as a signed number, when that number is
\* in the range the model can hold.
AsSigned(l) ==
    IF l[3] = 65535 /\ l[4] = 65535 /\ l[2] >= 32768
      THEN [fits |-> TRUE, v |-> (l[2] - 65536) * 65536 + l[1]]
      ELSE IF l[3] = 0 /\ l[4] = 0 /\ l[2] < 32768
             THEN [fits |-> TRUE, v |-> l[2] * 65536 + l[1]]
             ELSE [fits |-> FALSE, v |-> 0]

\* C12: status widening.  The widening is the identity on every non-negative
\* status, gives different values for different statuses, gives for a negative
\* status a value that is neither zero nor the value of a non-negative status,
\* and the status is recovered by reading the value as signed.
C12_StatusWidening ==
    calc.op = "status" =>
        /\ calc.a >= 0 => calc.ua = << calc.a % 65536, calc.a \div 65536, 0, 0 >>
        /\ calc.ua = calc.ub => calc.a = calc.b
        /\ calc.a < 0 => calc.ua # << 0, 0, 0, 0 >>
        /\ (calc.a < 0 /\ calc.b >= 0) => calc.ua # calc.ub
        /\ AsSigned(calc.ua).fits /\ AsSigned(calc.ua).v = calc.a

\* Status -1 has been widened, next to status 0.
C12_Witness ==
    /\ calc.op = "status" /\ calc.a = -1 /\ calc.b = 0
    /\ calc.ua = << 65535, 65535, 65535, 65535 >>

\* C13: transfer-info round trip.  from_tuple(r.tuple()) is r, and
\* from_tuple(t).tuple() is t.
C13_CodecRoundTrip ==
    /\ calc.op = "record" => calc.back = calc.r
    /\ calc.op = "tuple" => calc.back = calc.t

\* A record with an empty string, a negative total and zero bytes transferred
\* came back unchanged.
C13_Witness ==
    /\ calc.op = "record" /\ calc.back = calc.r
    /\ calc.r.account_id = "" /\ calc.r.total = -1 /\ calc.r.bytes_progress = 0

\* The record r and the tuple t hold the same eleven values, position by
\* position in the order of the data model.
SameOrder(r, t) ==
    /\ Len(t) = 11
    /\ t[1] = r.account_id
    /\ t[2] = r.last_event
    /\ t[3] = r.flags
    /\ t[4] = r.total
    /\ t[5] = r.bytes_progress
    /\ t[6] = r.author
    /\ t[7] = r.peer
    /\ t[8] = r.conv_id
    /\ t[9] = r.display_name
    /\ t[10] = r.path
    /\ t[11] = r.mimetype

\* C14: transfer-info field order.  In tuple() and in from_tuple(), positions
\* 0 to 10 are account id, last-event code, status flags, total size, bytes
\* transferred, author id, peer id, conversation id, display name, local path,
\* MIME type.
C14_FieldOrder == calc.op \in {"record", "tuple"} => SameOrder(calc.r, calc.t)

\* A tuple with different numbers at positions 3 and 4 was decoded: total is
\* the one at position 3 and bytes_progress the one at position 4.
C14_Witness ==
    /\ calc.op = "tuple" /\ calc.t[4] = 1 /\ calc.t[5] = -1
    /\ calc.r.total = 1 /\ calc.r.bytes_progress = -1

\* The value a facade function documents for a failed call.
DefaultOf(op) ==
    CASE op = "lookup_name"          -> FALSE
      [] op = "get_account_list"     -> << >>
      [] op = "add_account"          -> ""
      [] op = "send_file"            -> 0
      [] op = "cancel_file_transfer" -> 0
      [] op = "data_transfer_info"   -> [some |-> FALSE]

FacadeOps ==
    { "lookup_name", "get_account_list", "add_account", "send_file",
      "cancel_file_transfer", "data_transfer_info" }

\* C15: a facade function whose transport failed, be it the method call or
\* the opening of the session bus, does not panic and returns its default
\* value.
C15_NoTransportErrorPropagates ==
    (calc.op \in FacadeOps /\ calc.outs[1] # "ok") =>
        /\ ~calc.res.panicked
        /\ calc.res.ret = DefaultOf(calc.op)

\* C16: with every call succeeding, select_jami_account returns the first
\* enabled account of the daemon's list and creates none; with no enabled
\* account and create_if_not it creates one account and returns that account;
\* with no enabled account and no create_if_not it creates nothing.
C16_SelectReturnsTheAccount ==
    ( /\ calc.op = "select_jami_account"
      /\ \A i \in DOMAIN calc.outs : calc.outs[i] = "ok" ) =>
        LET anyEnabled == \E i \in DOMAIN calc.before : calc.before[i].enabled
        IN  /\ ~calc.res.panicked
            /\ anyEnabled =>
                   /\ calc.res.ret = FirstEnabled(calc.before)
                   /\ daemon.accounts = calc.before
            /\ (~anyEnabled /\ calc.create_if_not) =>
                   /\ Len(daemon.accounts) = Len(calc.before) + 1
                   /\ calc.created = daemon.accounts[Len(daemon.accounts)].id
                   /\ calc.res.ret.id = calc.created
            /\ (~anyEnabled /\ ~calc.create_if_not) =>
                   daemon.accounts = calc.before

\* C17: after a send_file whose sendFile call succeeded, the value returned
\* is the id the daemon gave to the transfer it started.
C17_SendFileReturnsTransferId ==
    (calc.op = "send_file" /\ calc.assigned # << >>) =>
        /\ ~calc.res.panicked
        /\ calc.res.ret = calc.assigned[1]

\* C18: a spawned send outlives the Stop Flag and the return.  Neither the
\* step that sets the flag nor the step by which handle_events returns removes
\* a spawned send task, and once handle_events has returned a pending send can
\* run as soon as the receiver is closed or the channel has room.
C18_StopAbortsNoSend ==
    /\ [][(stop' # stop \/ (pc # "done" /\ pc' = "done")) => tasks' = tasks]_vars
    /\ []((pc = "done" /\ tasks # << >> /\ (rxOpen => Len(chan) < capacity))
            => ENABLED RunTask)

\* The consumer has received an event that was enqueued after handle_events
\* had returned.
C18_Witness ==
    /\ stop /\ pc = "done"
    /\ \E k \in DOMAIN received : received[k].late

\* C19: handle_events called with the Stop Flag already set.  It returns only
\* with every subscription registered, after exactly one sleep and one look at
\* the flag, and the flag is still set; no step of handle_events writes the
\* flag and no step at all resets it.
C19_StopSetAtCall ==
    /\ []((stopAtCall /\ pc = "done") =>
            /\ busRules = NameSet
            /\ sleepsSinceStop = 1
            /\ checksSinceStop = 1
            /\ stop)
    /\ [][(pc' # pc => stop' = stop) /\ (stop => stop')]_vars

\* handle_events was called with the flag set and has returned Ok(()).
C19_Witness == stopAtCall /\ stop /\ pc = "done" /\ busRules = NameSet

====
